---------------------------- MODULE Spec2Model ----------------------------
(***************************************************************************)
(* Chapito: a stateless OpenAI-style chat-completion API in front of a     *)
(* stateful browser chat.                                                  *)
(*                                                                         *)
(*  - chapito/proxy.py: the ledger last_chat_messages, the reconciliation  *)
(*    scan find_index_from_end and the two completions endpoints.          *)
(*  - main.py: the browser/page globals, POST /chat and POST /restart.     *)
(*  - chapito/*_chat.py: the per-provider interaction send -> await ->     *)
(*    extract.                                                             *)
(*                                                                         *)
(* A text is a sequence of tokens.  A token is one character (" ", "\n",   *)
(* "a", "[") or an unbreakable run of characters without whitespace at its *)
(* ends ("user", "Error:").  Python's str operations are modelled on that  *)
(* representation: strip, join, f-string rendering, truthiness.            *)
(***************************************************************************)
EXTENDS Integers, Sequences, FiniteSets, TLC

(***************************************************************************)
(* Bounds of the model.                                                    *)
(***************************************************************************)
\* longest request (number of messages) the client sends
MaxMsgs == 3
\* a request is accepted only while the ledger can take its two appends
MaxLedger == 4
\* browser sessions created over a run
MaxSessions == 2
\* TIMEOUT_SECONDS of the providers, in seconds
ResponseDeadline == 3
\* most seconds one answer lookup (await page.find) takes to come back
LookupTime == 1
\* most elements of a page that match a provider's submit selector
MaxSubmits == 2
\* POST /chat requests of main.py the server handles at the same time
MaxFlights == 2
\* most answer containers a provider page comes to hold
MaxContainers == 2
\* POST /restart requests of main.py the server handles at the same time
MaxRestarts == 1

\* characters of the longest text clean_chat_answer is applied to
MaxText == 5

(***************************************************************************)
(* Input alphabets.                                                        *)
(***************************************************************************)
Whitespace == {" ", "\n", "\r", "\t"}

Roles == {"user", "assistant"}

\* message contents a client sends: one padded with whitespace, one plain
Contents == { <<" ", "a", "\n">>, <<"b">> }

\* texts the interaction callable returns to the proxy: "", two answers, an
\* answer that ends in a newline and the failure text of an interaction that
\* timed out
Answers ==
    { <<>>, <<"b">>, <<"c">>, <<"c", "\n">>, <<"Error:", " ", "Response timeout">> }

Messages == [role : Roles, content : Contents]

RECURSIVE SeqsUpTo(_, _)
SeqsUpTo(S, n) ==
    IF n = 0 THEN { <<>> }
    ELSE LET shorter == SeqsUpTo(S, n - 1)
         IN  shorter \cup { Append(s, x) : s \in shorter, x \in S }

\* the non-empty requests of at most MaxMsgs messages
Requests == SeqsUpTo(Messages, MaxMsgs) \ { <<>> }

Range(s) == { s[i] : i \in 1..Len(s) }

IsPrefix(s, t) == Len(s) <= Len(t) /\ SubSeq(t, 1, Len(s)) = s

(***************************************************************************)
(* Python str operations.                                                  *)
(***************************************************************************)
RECURSIVE lstrip(_)
lstrip(s) ==
    IF s # <<>> /\ Head(s) \in Whitespace THEN lstrip(Tail(s)) ELSE s

RECURSIVE rstrip(_)
rstrip(s) ==
    IF s # <<>> /\ s[Len(s)] \in Whitespace
    THEN rstrip(SubSeq(s, 1, Len(s) - 1))
    ELSE s

\* str.strip()
strip(s) == rstrip(lstrip(s))

\* str.replace(old, new) for a non-empty old: the occurrences of old are
\* taken from the left, without overlap, and what new puts in is not read
\* again
RECURSIVE replace(_, _, _)
replace(text, old, new) ==
    IF Len(text) < Len(old) THEN text
    ELSE IF SubSeq(text, 1, Len(old)) = old
    THEN new \o replace(SubSeq(text, Len(old) + 1, Len(text)), old, new)
    ELSE <<Head(text)>> \o replace(Tail(text), old, new)

\* old in text
contains(text, old) ==
    \E i \in 1..(Len(text) - Len(old) + 1) : SubSeq(text, i, i + Len(old) - 1) = old

\* sep.join(parts)
RECURSIVE join(_, _)
join(sep, parts) ==
    IF parts = <<>> THEN <<>>
    ELSE IF Len(parts) = 1 THEN parts[1]
    ELSE parts[1] \o sep \o join(sep, Tail(parts))

\* lst[k:] for 0 <= k
SliceFrom(lst, k) == SubSeq(lst, k + 1, Len(lst))

\* text.startswith(prefix)
startswith(text, prefix) ==
    IF Len(prefix) <= Len(text) THEN SubSeq(text, 1, Len(prefix)) = prefix ELSE FALSE

(***************************************************************************)
(* proxy.py: reconciliation.                                               *)
(***************************************************************************)
\* the loop of find_index_from_end from Python index i downwards
RECURSIVE ScanFromEnd(_, _, _)
ScanFromEnd(lst, values, i) ==
    IF i < 0 THEN -1
    ELSE IF strip(lst[i + 1].content) \in Range(values) THEN i
    ELSE ScanFromEnd(lst, values, i - 1)

\* a scan from the front: the first match instead of the last
RECURSIVE ScanFromStart(_, _, _)
ScanFromStart(lst, values, i) ==
    IF i >= Len(lst) THEN -1
    ELSE IF strip(lst[i + 1].content) \in Range(values) THEN i
    ELSE ScanFromStart(lst, values, i + 1)

find_index_from_start(lst, values) == ScanFromStart(lst, values, 0)

\* a scan that answers 0, not -1, when nothing matches
find_index_or_zero(lst, values) ==
    IF ScanFromEnd(lst, values, Len(lst) - 1) < 0 THEN 0
    ELSE ScanFromEnd(lst, values, Len(lst) - 1)

\* find_index_from_end(lst, values): Python index of the last message whose
\* stripped content is an element of values, -1 if none
find_index_from_end(lst, values) == ScanFromEnd(lst, values, Len(lst) - 1)

\* a rendering without the brackets
RenderPlain(message) == <<message.role, ":", " ">> \o message.content

\* f"[{message.role}] {message.content}"
Render(message) == <<"[", message.role, "]", " ">> \o message.content

\* "\n\n".join(f"[{m.role}] {m.content}" for m in messages)
RenderAll(messages) ==
    join(<<"\n", "\n">>, [i \in 1..Len(messages) |-> Render(messages[i])])

\* the prompt computed from the suffix after the match
DeltaPrompt(messages, values) ==
    RenderAll(SliceFrom(messages, find_index_from_end(messages, values) + 1))

\* the delta submitted as it is, empty or not
SubmittedDeltaOnly(messages, values) == DeltaPrompt(messages, values)

\* the prompt handed to the interaction: the delta, or the whole session
\* when the delta is empty ("if not prompt")
SubmittedPrompt(messages, values) ==
    IF DeltaPrompt(messages, values) = <<>>
    THEN RenderAll(messages)
    ELSE DeltaPrompt(messages, values)

\* the first append left out
AppendLastMessageLater(values, messages) == values

\* the first append made only for a text the ledger does not hold yet
AppendLastMessageIfNew(values, messages) ==
    IF strip(messages[Len(messages)].content) \in Range(values)
    THEN values
    ELSE Append(values, strip(messages[Len(messages)].content))

\* last_chat_messages.append(request.messages[-1].content.strip())
AppendLastMessage(values, messages) ==
    Append(values, strip(messages[Len(messages)].content))

\* the ledger rebuilt from the answer instead of extended by it
AppendAnswerReplacing(values, response_content) ==
    IF response_content # <<>> THEN <<response_content>> ELSE values

\* if response_content: last_chat_messages.append(response_content)
AppendAnswer(values, response_content) ==
    IF response_content # <<>> THEN Append(values, response_content) ELSE values


(***************************************************************************)
(* State.                                                                  *)
(***************************************************************************)
VARIABLES
    \* proxy.py
    ledger,     \* last_chat_messages
    ppc,        \* "off" before init_proxy; then where the one request in
                \* the event loop stands: "idle", "calling" (inside
                \* send_request_and_get_response), "done"
    ep,         \* the endpoint handling it
    req,        \* its request.messages
    prompt,     \* the prompt handed to the interaction for it
    resp,       \* the HTTP answer to it: its status and, for a completion,
                \* the fields of data
    stream,     \* its request.stream
    wire,       \* what the server writes to the client for it
    fault,      \* what raised inside the handler's try block, "none" if nothing
    cfgStream,  \* app.state.config.stream, set once by init_proxy
    \* main.py
    browser,    \* global browser: 0 is None, n > 0 the n-th browser created
    page,       \* global page: 0 is None, n > 0 the page of browser n
    created,    \* browsers created so far by create_driver
    closed,     \* browsers closed so far by close_browser
    dropped,    \* browsers close_browser was called on whose stop() raised
    restarts,   \* the POST /restart requests being handled, one record per
                \* coroutine: position, the browser it awaits (the one it
                \* stops, the one it asks for a page), the globals when it
                \* began, the answer
    proc,       \* main.py's server: "starting", "serving", "stopped"
    flights,    \* the POST /chat requests being handled, one record per
                \* coroutine: position, request.model, the page passed to the
                \* chat function, its result, the answer
    loaded,     \* pages on which wait_for_chat_to_load has returned True
    \* chapito/*_chat.py: the one interaction chat_with_<provider> under way
    ipc,        \* "idle", "send", "await", "sleep", "extract", "done"
    prov,       \* the provider, "none" when idle
    sent,       \* what send_message did and returned
    elapsed,    \* time.time() - start_time of wait_for_response, in seconds
    result,     \* the text chat_with_<provider> returns
    nPolls,     \* answer lookups made by wait_for_response in this interaction
    nExtracts,  \* calls of get_last_response in this interaction
    lookup,     \* what the last answer lookup of wait_for_response gave
    caught,     \* the helper that caught an exception in this interaction
    submits,    \* elements matching the submit selector when send_message
                \* looked them up
    containers, \* answer containers on the provider page, those of earlier
                \* interactions included: the page keeps them
    containersAtSend,   \* how many there were when send_message returned
    readFrom,   \* the container get_last_response read (1 is the oldest),
                \* 0 for none
    \* the client of a conversation
    conv,       \* the messages it holds: what it sent and the replies it got
    via,        \* the endpoint it posted each of its requests to
    lastFault,  \* what raised in the handler of its last request, "none" for
                \* a request that was answered 200
    \* duckduckgo_chat.py: one call of get_last_response
    cpc,        \* "idle", "loop" (at the while test), "woke" (after the
                \* sleep of the loop body), "done"
    message,    \* its local message
    remaining_attempts,     \* its local remaining_attempts
    waits,      \* asyncio.sleep(1) calls it has made
    tries,      \* what each get_answer_from_copy_button call met and gave
    cret,       \* the text it returned
    \* deepseek_chat.py: one call of wait_for_chat_to_load
    lpc,        \* "idle", "test" (at the while test), "sleep" (a check gave
                \* False), "done"
    loadElapsed,    \* time.time() - start_time of wait_for_chat_to_load
    checks,     \* what the element lookup of each check_if_chat_loaded gave
    lret,       \* what wait_for_chat_to_load returned
    \* duckduckgo_chat.py: clean_chat_answer applied to a text and to its result
    pasted,     \* the text it was called on first
    cleanings,  \* what it returned, call after call
    \* observations of the run, read only by the properties
    ledger0,    \* the ledger as find_index_from_end read it for this request
    nAccepted,  \* requests that passed validation so far
    nAnswers,   \* non-empty texts the interaction has returned so far
    turns       \* distinct stripped last-message texts submitted so far

proxyVars == <<ledger, ppc, ep, req, prompt, resp, stream, wire, fault, cfgStream>>
mainVars == <<browser, page, created, closed, dropped, restarts, proc, flights, loaded>>
obsVars == <<ledger0, nAccepted, nAnswers, turns>>
chatVars ==
    <<ipc, prov, sent, elapsed, result, nPolls, nExtracts, lookup, caught, submits,
      containers, containersAtSend, readFrom>>
convVars == <<conv, via, lastFault>>
clipVars == <<cpc, message, remaining_attempts, waits, tries, cret>>
loadVars == <<lpc, loadElapsed, checks, lret>>
cleanVars == <<pasted, cleanings>>
vars == <<proxyVars, mainVars, chatVars, convVars, clipVars, loadVars, cleanVars, obsVars>>

NoHandle == 0

NoResponse == [status |-> 0]

\* nothing written to the client yet
NothingSent == [media |-> "none"]

\* the coroutines that can handle POST /chat
Slots == 1..MaxFlights

\* no request in the coroutine
IdleFlight ==
    [pc |-> "idle", model |-> "none", held |-> NoHandle, page |-> NoHandle,
     waited |-> FALSE, result |-> <<>>, response |-> NoResponse]

RestartSlots == 1..MaxRestarts

\* no request in the coroutine
IdleRestart ==
    [pc |-> "idle", held |-> NoHandle,
     before |-> [browser |-> NoHandle, page |-> NoHandle],
     response |-> NoResponse]

\* send_message not called yet
NotSent == [ret |-> FALSE, inserted |-> FALSE, clicked |-> 0, activated |-> FALSE]

Init ==
    /\ ledger = <<>>
    /\ ppc = "off"
    /\ ep = "none"
    /\ req = <<>>
    /\ prompt = <<>>
    /\ resp = NoResponse
    /\ stream = FALSE
    /\ wire = NothingSent
    /\ fault = "none"
    /\ cfgStream = FALSE
    /\ browser = NoHandle
    /\ page = NoHandle
    /\ created = 0
    /\ closed = {}
    /\ dropped = {}
    /\ restarts = [r \in RestartSlots |-> IdleRestart]
    /\ proc = "starting"
    /\ flights = [i \in Slots |-> IdleFlight]
    /\ loaded = {}
    /\ ipc = "idle"
    /\ prov = "none"
    /\ sent = NotSent
    /\ elapsed = 0
    /\ result = <<>>
    /\ nPolls = 0
    /\ nExtracts = 0
    /\ lookup = "none"
    /\ caught = "none"
    /\ submits = 0
    /\ containers = 0
    /\ containersAtSend = 0
    /\ readFrom = 0
    /\ conv = <<>>
    /\ via = <<>>
    /\ lastFault = "none"
    /\ cpc = "idle"
    /\ message = <<>>
    /\ remaining_attempts = 0
    /\ waits = 0
    /\ tries = <<>>
    /\ cret = <<>>
    /\ lpc = "idle"
    /\ loadElapsed = 0
    /\ checks = <<>>
    /\ lret = FALSE
    /\ pasted = <<>>
    /\ cleanings = <<>>
    /\ ledger0 = <<>>
    /\ nAccepted = 0
    /\ nAnswers = 0
    /\ turns = {}

(***************************************************************************)
(* proxy.py: the completions endpoints.  The handler is a coroutine that   *)
(* never awaits and calls the interaction synchronously, so the event loop *)
(* runs one request at a time; the handler is cut only at that call, where *)
(* the interaction (another component) runs, and where it hands its answer *)
(* to the server.                                                          *)
(***************************************************************************)
\* init_proxy(driver, send_request_and_get_response, config): the server
\* starts with the stream default of its configuration
init_proxy ==
    /\ ppc = "off"
    /\ ppc' = "idle"
    /\ cfgStream' \in BOOLEAN
    /\ UNCHANGED <<ledger, ep, req, prompt, resp, stream, wire, fault, mainVars,
                   chatVars, convVars, clipVars, loadVars, cleanVars, obsVars>>

\* a handler whose validation sits inside the try block: the 400 is caught
\* by "except Exception" and leaves as a 500
ValidationErrorCaught ==
    [status |-> 500, type |-> "server_error", code |-> "internal_error"]

\* the HTTPException(400) raised for "if not request.messages"
ValidationError ==
    [status |-> 400, type |-> "invalid_request_error", param |-> "messages",
     code |-> "invalid_request_error"]

\* the HTTPException(500) raised by "except Exception"
InternalError ==
    [status |-> 500, type |-> "server_error", code |-> "internal_error"]

\* the JSON body FastAPI writes for an HTTPException: {"detail": {"error": ...}}
ErrorBody(e) ==
    [media |-> "application/json",
     body |-> [detail |-> [error |-> [type |-> e.type, code |-> e.code]]]]

\* what can raise inside the try block: the interaction callable itself, or
\* response_content[-100:] when the callable returned None
Faults == {"callable_raised", "result_is_none"}

\* a /v1 handler that keeps a ledger of its own: it scans none of the entries
\* the other endpoint appended
HandlerCallOwnLedger(endpoint, messages, s) ==
    /\ ppc = "idle"
    /\ messages # <<>>
    /\ Len(ledger) + 2 <= MaxLedger
    /\ prompt' = SubmittedPrompt(messages,
                     IF endpoint = "/v1/chat/completions" THEN <<>> ELSE ledger)
    /\ ledger' = AppendLastMessage(ledger, messages)
    /\ ppc' = "calling"
    /\ ep' = endpoint
    /\ req' = messages
    /\ stream' = s
    /\ ledger0' = ledger
    /\ nAccepted' = nAccepted + 1
    /\ turns' = turns \cup { strip(messages[Len(messages)].content) }
    /\ UNCHANGED <<resp, wire, fault, cfgStream, nAnswers, mainVars, chatVars>>

\* validation passed: scan, prompt, first append, then the interaction starts
HandlerCall(endpoint, messages, s) ==
    /\ ppc = "idle"
    /\ messages # <<>>
    /\ Len(ledger) + 2 <= MaxLedger
    /\ prompt' = SubmittedPrompt(messages, ledger)
    /\ ledger' = AppendLastMessage(ledger, messages)
    /\ ppc' = "calling"
    /\ ep' = endpoint
    /\ req' = messages
    /\ stream' = s
    /\ ledger0' = ledger
    /\ nAccepted' = nAccepted + 1
    /\ turns' = turns \cup { strip(messages[Len(messages)].content) }
    /\ UNCHANGED <<resp, wire, fault, cfgStream, nAnswers, mainVars, chatVars>>

\* the completion built from response_content (non-streaming body)
Completion(response_content) ==
    [status |-> 200,
     object |-> "chat.completion",
     role |-> "assistant",
     content |-> response_content,
     finish_reason |-> "stop"]

\* data, the dict built from response_content (id, created, model and usage
\* left out)
Data(response_content) ==
    [object |-> "chat.completion",
     choices |-> << [index |-> 0,
                     message |-> [role |-> "assistant", content |-> response_content],
                     finish_reason |-> "stop"] >>]

\* choice with its "message" entry moved to "delta"
MessageToDelta(choice) ==
    IF "message" \in DOMAIN choice
    THEN [k \in (DOMAIN choice \ {"message"}) \cup {"delta"} |->
            IF k = "delta" THEN choice.message ELSE choice[k]]
    ELSE choice

\* a generator that streams data as it is
generate_json_stream_unchanged(data) ==
    << [data |-> [json |-> data]], [data |-> [text |-> "[DONE]"]] >>

\* generate_json_stream(data): the frames "data: <json.dumps(data)>" and
\* "data: [DONE]", in this order
generate_json_stream(data) ==
    << [data |-> [json |-> [data EXCEPT !.choices = << MessageToDelta(data.choices[1]) >>]]],
       [data |-> [text |-> "[DONE]"]] >>

\* "if request.stream or app.state.config.stream": StreamingResponse, else
\* JSONResponse
Respond(data, request_stream, config_stream) ==
    IF request_stream \/ config_stream
    THEN [media |-> "text/event-stream", frames |-> generate_json_stream(data)]
    ELSE [media |-> "application/json", body |-> data]

\* the interaction returned response_content: second append, 200 answer
HandlerReturn(endpoint, response_content) ==
    /\ ppc = "calling"
    /\ ep = endpoint
    /\ ledger' = AppendAnswer(ledger, response_content)
    /\ resp' = Completion(response_content)
    /\ wire' = Respond(Data(response_content), stream, cfgStream)
    /\ ppc' = "done"
    /\ nAnswers' = nAnswers + (IF response_content # <<>> THEN 1 ELSE 0)
    /\ UNCHANGED <<ep, req, prompt, stream, fault, cfgStream, ledger0, nAccepted,
                   turns, mainVars, chatVars>>

\* a handler that swallows the exception and answers an empty completion
HandlerRaiseAnswersEmpty(endpoint, cause) ==
    /\ ppc = "calling"
    /\ ep = endpoint
    /\ fault' = cause
    /\ resp' = Completion(<<>>)
    /\ wire' = Respond(Data(<<>>), stream, cfgStream)
    /\ ppc' = "done"
    /\ UNCHANGED <<ledger, ep, req, prompt, stream, cfgStream, obsVars, mainVars,
                   chatVars>>

\* a handler that takes its first append back when something raised
HandlerRaiseRollingBack(endpoint, cause) ==
    /\ ppc = "calling"
    /\ ep = endpoint
    /\ fault' = cause
    /\ resp' = InternalError
    /\ wire' = ErrorBody(InternalError)
    /\ ppc' = "done"
    /\ ledger' = ledger0
    /\ UNCHANGED <<ep, req, prompt, stream, cfgStream, obsVars, mainVars, chatVars>>

\* something raised inside the try block: except Exception ->
\* HTTPException(500)
HandlerRaise(endpoint, cause) ==
    /\ ppc = "calling"
    /\ ep = endpoint
    /\ fault' = cause
    /\ resp' = InternalError
    /\ wire' = ErrorBody(InternalError)
    /\ ppc' = "done"
    /\ UNCHANGED <<ledger, ep, req, prompt, stream, cfgStream, obsVars, mainVars,
                   chatVars>>

\* "if not request.messages": HTTPException(400) before anything else
HandlerInvalid(endpoint, s) ==
    /\ ppc = "idle"
    /\ ep' = endpoint
    /\ req' = <<>>
    /\ stream' = s
    /\ resp' = ValidationError
    /\ wire' = ErrorBody(ValidationError)
    /\ ppc' = "done"
    /\ UNCHANGED <<ledger, prompt, fault, cfgStream, obsVars, mainVars, chatVars>>

\* the answer leaves the server; the handler's locals are gone
HandlerExit ==
    /\ ppc = "done"
    /\ ppc' = "idle"
    /\ ep' = "none"
    /\ req' = <<>>
    /\ prompt' = <<>>
    /\ resp' = NoResponse
    /\ stream' = FALSE
    /\ wire' = NothingSent
    /\ fault' = "none"
    /\ ledger0' = <<>>
    /\ UNCHANGED <<ledger, cfgStream, nAccepted, nAnswers, turns, mainVars, chatVars>>

\* POST /chat/completions
chat_completions_call ==
    /\ \E messages \in Requests, s \in BOOLEAN :
          HandlerCall("/chat/completions", messages, s)
    /\ UNCHANGED <<convVars, clipVars, loadVars, cleanVars>>

chat_completions_return ==
    /\ \E a \in Answers : HandlerReturn("/chat/completions", a)
    /\ UNCHANGED <<convVars, clipVars, loadVars, cleanVars>>

chat_completions_raise ==
    /\ \E cause \in Faults : HandlerRaise("/chat/completions", cause)
    /\ UNCHANGED <<convVars, clipVars, loadVars, cleanVars>>

chat_completions_invalid ==
    /\ \E s \in BOOLEAN : HandlerInvalid("/chat/completions", s)
    /\ UNCHANGED <<convVars, clipVars, loadVars, cleanVars>>

\* POST /v1/chat/completions
v1_chat_completions_call ==
    /\ \E messages \in Requests, s \in BOOLEAN :
          HandlerCall("/v1/chat/completions", messages, s)
    /\ UNCHANGED <<convVars, clipVars, loadVars, cleanVars>>

v1_chat_completions_return ==
    /\ \E a \in Answers : HandlerReturn("/v1/chat/completions", a)
    /\ UNCHANGED <<convVars, clipVars, loadVars, cleanVars>>

v1_chat_completions_raise ==
    /\ \E cause \in Faults : HandlerRaise("/v1/chat/completions", cause)
    /\ UNCHANGED <<convVars, clipVars, loadVars, cleanVars>>

v1_chat_completions_invalid ==
    /\ \E s \in BOOLEAN : HandlerInvalid("/v1/chat/completions", s)
    /\ UNCHANGED <<convVars, clipVars, loadVars, cleanVars>>

ResponseSent == HandlerExit /\ UNCHANGED <<convVars, clipVars, loadVars, cleanVars>>

(***************************************************************************)
(* A client holding one conversation, OpenAI style: each request repeats   *)
(* the conversation so far (its earlier messages and the replies returned  *)
(* for them) and adds one new user message.  It goes on only after a reply *)
(* with text in it.                                                        *)
(***************************************************************************)
Endpoints == {"/chat/completions", "/v1/chat/completions"}

ConversationTurn ==
    /\ IF conv = <<>> THEN TRUE ELSE conv[Len(conv)].role = "assistant"
    /\ Len(conv) + 1 <= MaxMsgs
    /\ \E endpoint \in Endpoints, c \in Contents :
        LET messages == Append(conv, [role |-> "user", content |-> c])
        IN  /\ \E s \in BOOLEAN : HandlerCall(endpoint, messages, s)
            /\ conv' = messages
            /\ via' = Append(via, endpoint)
            /\ UNCHANGED <<lastFault, clipVars, loadVars, cleanVars>>

\* a client that posts any request, whatever it posted before
ClientPost ==
    /\ lastFault = "none"
    /\ \E endpoint \in Endpoints, messages \in Requests, s \in BOOLEAN :
          /\ HandlerCall(endpoint, messages, s)
          /\ conv' = messages
          /\ via' = <<endpoint>>
    /\ UNCHANGED <<lastFault, clipVars, loadVars, cleanVars>>

\* the client got a 500 and posts the request again, message for message, to
\* the same endpoint
ClientRetry ==
    /\ lastFault # "none"
    /\ \E s \in BOOLEAN : HandlerCall(via[Len(via)], conv, s)
    /\ UNCHANGED <<convVars, clipVars, loadVars, cleanVars>>

ConversationReply ==
    \E endpoint \in Endpoints, a \in Answers :
        /\ HandlerReturn(endpoint, a)
        /\ conv' = IF a # <<>>
                   THEN Append(conv, [role |-> "assistant", content |-> a])
                   ELSE conv
        /\ lastFault' = "none"
        /\ UNCHANGED <<via, clipVars, loadVars, cleanVars>>

\* the client of ClientPost got its 200 and keeps nothing of the request
ClientAnswered ==
    \E endpoint \in Endpoints, a \in Answers :
        /\ HandlerReturn(endpoint, a)
        /\ conv' = <<>>
        /\ lastFault' = "none"
        /\ UNCHANGED <<via, clipVars, loadVars, cleanVars>>

ConversationError ==
    /\ \E endpoint \in Endpoints, cause \in Faults :
          /\ HandlerRaise(endpoint, cause)
          /\ lastFault' = cause
    /\ UNCHANGED <<conv, via, clipVars, loadVars, cleanVars>>

(***************************************************************************)
(* main.py: the browser session.                                           *)
(***************************************************************************)
\* what create_driver() and browser.get_page() can do
InitOutcomes == {"ok", "create_raises", "get_page_raises"}

\* initialize_browser(): the globals afterwards and the value returned
initialize_browser(b, p, c, outcome) ==
    IF b # NoHandle
    THEN [browser |-> b, page |-> p, created |-> c, ret |-> TRUE]
    ELSE IF outcome = "create_raises"
    THEN [browser |-> b, page |-> p, created |-> c, ret |-> FALSE]
    ELSE IF outcome = "get_page_raises"
    THEN [browser |-> c + 1, page |-> p, created |-> c + 1, ret |-> FALSE]
    ELSE [browser |-> c + 1, page |-> c + 1, created |-> c + 1, ret |-> TRUE]

\* what browser.stop() can do inside close_browser
StopOutcomes == {"ok", "stop_raises"}

\* close_browser(b): the stopped browsers afterwards; an exception of
\* browser.stop() is logged and the browser is not stopped
close_browser(b, cl, dr, outcome) ==
    IF outcome = "ok"
    THEN [closed |-> cl \cup {b}, dropped |-> dr]
    ELSE [closed |-> cl, dropped |-> dr \cup {b}]

\* cleanup_browser(): the globals and the closed browsers afterwards; the
\* globals are set to None whatever close_browser met
cleanup_browser(b, p, cl, dr, outcome) ==
    IF b # NoHandle
    THEN [browser |-> NoHandle, page |-> NoHandle,
          closed |-> close_browser(b, cl, dr, outcome).closed,
          dropped |-> close_browser(b, cl, dr, outcome).dropped]
    ELSE [browser |-> b, page |-> p, closed |-> cl, dropped |-> dr]

(***************************************************************************)
(* chapito/*_chat.py: one interaction, chat_with_<provider>(page, message). *)
(* It is a coroutine that awaits the page at every step, so it is cut at   *)
(* its three calls: send_message, each lookup of wait_for_response,        *)
(* get_last_response.                                                      *)
(***************************************************************************)
Providers == {"deepseek", "duckduckgo", "gpt", "qwen"}

ErrorSendFailed == <<"Error:", " ", "Failed to send message">>

ErrorResponseTimeout == <<"Error:", " ", "Response timeout">>

\* what the page does during one send_message: the lookup of the input
\* control, the insertion of the text, the lookup of the submit controls
\* (how many match the selector), the click
SendEnvs ==
    [textarea : {"found", "missing", "raises"},
     insert : {"ok", "raises"},
     find_submit : {"ok", "raises"},
     submits : 0..MaxSubmits,
     click : {"ok", "fails"}]

SendResult(ret, inserted, clicked, activated) ==
    [ret |-> ret, inserted |-> inserted, clicked |-> clicked, activated |-> activated]

\* send_message of deepseek, duckduckgo and qwen: page.find the textarea,
\* click and insert_text, page.find(find_all=True) the submit controls, take
\* the last one, click_element; any exception is caught and gives False
send_message_last_submit(env) ==
    IF env.textarea # "found" THEN SendResult(FALSE, FALSE, 0, FALSE)
    ELSE IF env.insert = "raises" THEN SendResult(FALSE, FALSE, 0, FALSE)
    ELSE IF env.find_submit = "raises" THEN SendResult(FALSE, TRUE, 0, FALSE)
    ELSE IF env.submits = 0 THEN SendResult(FALSE, TRUE, 0, FALSE)
    ELSE SendResult(TRUE, TRUE, env.submits, env.click = "ok")

\* send_message of openai: wait_for_element_visible, transfer_prompt,
\* wait_for_element_clickable (one element: the first match), click_element
send_message_gpt(env) ==
    IF env.textarea # "found" THEN SendResult(FALSE, FALSE, 0, FALSE)
    ELSE IF env.insert = "raises" THEN SendResult(FALSE, FALSE, 0, FALSE)
    ELSE IF env.find_submit = "raises" THEN SendResult(FALSE, TRUE, 0, FALSE)
    ELSE IF env.submits = 0 THEN SendResult(FALSE, TRUE, 0, FALSE)
    ELSE SendResult(TRUE, TRUE, 1, env.click = "ok")

send_message(provider, env) ==
    IF provider = "gpt" THEN send_message_gpt(env)
    ELSE send_message_last_submit(env)

\* an exception was raised and caught during send_message: in the lookup
\* of the input control, the insertion or the lookup of the submit controls
SendRaised(env) ==
    \/ env.textarea = "raises"
    \/ env.textarea = "found" /\ env.insert = "raises"
    \/ env.textarea = "found" /\ env.insert = "ok" /\ env.find_submit = "raises"

\* the elements the lookup of the submit controls returned, 0 if the lookup
\* was not reached or raised
SubmitsSeen(env) ==
    IF env.textarea = "found" /\ env.insert = "ok" /\ env.find_submit = "ok"
    THEN env.submits
    ELSE 0

\* texts of the last answer container: nothing, an answer, an answer with a
\* trailing line break, an answer of two paragraphs, an answer that itself
\* starts with the word Error:
ExtractedTexts ==
    { <<>>, <<"c">>, <<"c", "\n">>, <<"c", "\n", "\n", "c">>, <<"Error:", " ", "c">> }

\* what the page does during one get_last_response: the lookup of the answer
\* containers finds some, finds none or raises; the text of the last one
ExtractEnvs == [containers : {"found", "none", "raises"}, text : ExtractedTexts]

\* while "\n\n" in clean_answer: clean_answer = clean_answer.replace("\n\n", "\n")
RECURSIVE collapse_line_breaks(_)
collapse_line_breaks(clean_answer) ==
    IF contains(clean_answer, <<"\n", "\n">>)
    THEN collapse_line_breaks(replace(clean_answer, <<"\n", "\n">>, <<"\n">>))
    ELSE clean_answer

\* clean_chat_answer of qwen_chat.py on a container without markup:
\* get_text(separator="\n").strip(), then every run of line breaks made one
qwen_clean_chat_answer(html) == collapse_line_breaks(strip(html))

\* clean_chat_answer of deepseek_chat.py on a container without markup:
\* soup.get_text().strip()
deepseek_clean_chat_answer(html) == strip(html)

\* clean_chat_answer of duckduckgo_chat.py: text.replace("\r\n", "\n").strip()
clean_chat_answer(text) == strip(replace(text, <<"\r", "\n">>, <<"\n">>))

\* get_last_response of a provider: the cleaned text of the last answer
\* container, "" when there is none, "" when anything raised (except
\* Exception: return "").  chat_with_gpt strips response.text; deepseek and
\* qwen clean the outerHTML; duckduckgo cleans what it copied.
get_last_response(provider, env) ==
    IF env.containers # "found" THEN <<>>
    ELSE IF provider = "qwen" THEN qwen_clean_chat_answer(env.text)
    ELSE IF provider = "deepseek" THEN deepseek_clean_chat_answer(env.text)
    ELSE IF provider = "duckduckgo" THEN clean_chat_answer(env.text)
    ELSE strip(env.text)

\* the texts get_last_response of a provider can return for a container
ExtractedBy(provider) ==
    { get_last_response(provider, [containers |-> "found", text |-> t]) :
        t \in ExtractedTexts }

\* a chat function that goes on to wait whatever send_message returned
AfterSendAlwaysAwait(ok) == "await"

\* "if not await send_message(page, message): return ..."
AfterSend(ok) == IF ok THEN "await" ELSE "done"

\* a loop that never gives up
WithinDeadlineAlways(e) == TRUE

\* "while time.time() - start_time < TIMEOUT_SECONDS"
WithinDeadline(e) == e < ResponseDeadline

\* a chat function that returns without reading the answer it waited for
AfterLookupNoExtract(l) == IF l = "none" THEN "sleep" ELSE "done"

\* where the interaction goes after one answer lookup: wait_for_response
\* returns True (then get_last_response), goes to asyncio.sleep(1), or
\* catches the exception and returns False
AfterLookup(l) ==
    IF l = "answer" THEN "extract"
    ELSE IF l = "none" THEN "sleep"
    ELSE "done"

\* chat_with_<provider> is called
ChatCall(provider) ==
    /\ ipc = "idle"
    /\ ipc' = "send"
    /\ prov' = provider
    /\ sent' = NotSent
    /\ elapsed' = 0
    /\ result' = <<>>
    /\ nPolls' = 0
    /\ nExtracts' = 0
    /\ lookup' = "none"
    /\ caught' = "none"
    /\ submits' = 0
    /\ containersAtSend' = 0
    /\ readFrom' = 0
    /\ UNCHANGED containers

\* send_message runs and returns
ChatSend(provider) ==
    /\ ipc = "send"
    /\ prov = provider
    /\ \E env \in SendEnvs :
        LET r == send_message(provider, env)
        IN  /\ sent' = r
            /\ ipc' = AfterSend(r.ret)
            /\ result' = IF AfterSend(r.ret) = "done" THEN ErrorSendFailed ELSE result
            /\ caught' = IF SendRaised(env) THEN "send_message" ELSE caught
            /\ submits' = SubmitsSeen(env)
    /\ containersAtSend' = containers
    /\ UNCHANGED <<prov, elapsed, nPolls, nExtracts, lookup, containers, readFrom>>

\* what page.find(ANSWER_XPATH, find_all=True) does on a page holding n
\* answer containers: it gives them all (an empty list for none) or raises
Lookups(n) == {IF n > 0 THEN "answer" ELSE "none", "raises"}

\* while an await of wait_for_response is pending the provider may put the
\* answer to the submitted prompt on the page, in a new container after
\* those of the earlier turns
Arrivals(activated, n, atSend) ==
    IF activated /\ n = atSend /\ n < MaxContainers THEN {n, n + 1} ELSE {n}

\* the loop test of wait_for_response passed and the awaited lookup came
\* back: it found an answer (return True), found none (on to the sleep), or
\* raised (caught: wait_for_response returns False).  time.time() -
\* start_time has grown by the seconds the lookup took.
ChatPoll(provider) ==
    /\ ipc = "await"
    /\ prov = provider
    /\ WithinDeadline(elapsed)
    /\ nPolls' = nPolls + 1
    /\ containers' \in Arrivals(sent.activated, containers, containersAtSend)
    /\ \E l \in Lookups(containers'), took \in 0..LookupTime :
        /\ lookup' = l
        /\ ipc' = AfterLookup(l)
        /\ elapsed' = elapsed + took
        /\ result' = IF l = "raises" THEN ErrorResponseTimeout ELSE result
        /\ caught' = IF l = "raises" THEN "wait_for_response" ELSE caught
    /\ UNCHANGED <<prov, sent, nExtracts, submits, containersAtSend, readFrom>>

\* "await asyncio.sleep(1)" after an empty lookup came back: on to the loop
\* test, one second later
ChatSleep(provider) ==
    /\ ipc = "sleep"
    /\ prov = provider
    /\ ipc' = "await"
    /\ elapsed' = elapsed + 1
    /\ containers' \in Arrivals(sent.activated, containers, containersAtSend)
    /\ UNCHANGED <<prov, sent, result, nPolls, nExtracts, lookup, caught, submits,
                   containersAtSend, readFrom>>

\* the loop condition fails: wait_for_response returns False
ChatTimeout(provider) ==
    /\ ipc = "await"
    /\ prov = provider
    /\ ~WithinDeadline(elapsed)
    /\ ipc' = "done"
    /\ result' = ErrorResponseTimeout
    /\ UNCHANGED <<prov, sent, elapsed, nPolls, nExtracts, lookup, caught, submits,
                   containers, containersAtSend, readFrom>>

\* get_last_response runs; its text is the result (chat_with_gpt then calls
\* check_for_preferred_response_button, which changes nothing kept here).
\* The text is read from response_elements[-1], the last container on the
\* page.
ChatExtract(provider) ==
    /\ ipc = "extract"
    /\ prov = provider
    /\ nExtracts' = nExtracts + 1
    /\ \E env \in ExtractEnvs :
        /\ env.containers = "found" => containers > 0
        /\ result' = get_last_response(provider, env)
        /\ caught' = IF env.containers = "raises" THEN "get_last_response" ELSE caught
        /\ readFrom' = IF env.containers = "found" THEN containers ELSE 0
    /\ ipc' = "done"
    /\ UNCHANGED <<prov, sent, elapsed, nPolls, lookup, submits, containers,
                   containersAtSend>>

\* the result is returned to the caller
ChatReturn(provider) ==
    /\ ipc = "done"
    /\ prov = provider
    /\ ipc' = "idle"
    /\ prov' = "none"
    /\ sent' = NotSent
    /\ elapsed' = 0
    /\ result' = <<>>
    /\ nPolls' = 0
    /\ nExtracts' = 0
    /\ lookup' = "none"
    /\ caught' = "none"
    /\ submits' = 0
    /\ containersAtSend' = 0
    /\ readFrom' = 0
    /\ UNCHANGED containers

\* an interaction touches neither the proxy nor the browser globals
ChatFrame == UNCHANGED <<proxyVars, mainVars, convVars, clipVars, loadVars, cleanVars, obsVars>>

ChatWith(provider) ==
    \/ ChatCall(provider) /\ ChatFrame
    \/ ChatSend(provider) /\ ChatFrame
    \/ ChatPoll(provider) /\ ChatFrame
    \/ ChatSleep(provider) /\ ChatFrame
    \/ ChatTimeout(provider) /\ ChatFrame
    \/ ChatExtract(provider) /\ ChatFrame
    \/ ChatReturn(provider) /\ ChatFrame

chat_with_deepseek == ChatWith("deepseek")

chat_with_duckduckgo == ChatWith("duckduckgo")

chat_with_gpt == ChatWith("gpt")

chat_with_qwen == ChatWith("qwen")

(***************************************************************************)
(* duckduckgo_chat.py: get_last_response, which reads the answer through   *)
(* the copy button of the last message bubble and the clipboard.  It is    *)
(* cut at its awaits: the sleep of the loop body and the attempt.          *)
(***************************************************************************)
\* what pyperclip.paste() gives: nothing, a plain answer, answers with CR LF
\* inside (once after another CR) and at the end, whitespace only
ClipboardTexts ==
    { <<>>, <<"c">>, <<" ", "c", "\r", "\n">>, <<"c", "\r", "\n", "c">>,
      <<"c", "\r", "\r", "\n", "c">>, <<"\r", "\n">> }

\* what one attempt meets: the lookup of the message bubbles, the lookup of
\* the copy button in the last one, the clipboard after the click
CopyEnvs ==
    [bubbles : {"found", "none", "raises"},
     button : {"found", "missing"},
     clipboard : ClipboardTexts]

\* get_answer_from_copy_button(page): the clipboard, or "" without bubbles,
\* without a copy button and after any exception
get_answer_from_copy_button(env) ==
    IF env.bubbles = "found" /\ env.button = "found"
    THEN env.clipboard
    ELSE <<>>

\* where an attempt ended
Met(env) ==
    IF env.bubbles # "found" THEN env.bubbles
    ELSE IF env.button # "found" THEN "no_button"
    ELSE "pasted"

\* remaining_attempts = 5
CopyAttempts == 5

\* a loop that uses up its attempts whatever they give
KeepTryingToTheEnd(m, r) == r > 0

\* while not message and remaining_attempts > 0
KeepTrying(m, r) == m = <<>> /\ r > 0

ClipFrame == UNCHANGED <<proxyVars, mainVars, chatVars, convVars, loadVars, cleanVars, obsVars>>

\* scroll_down(page), which swallows its exceptions; message = "";
\* remaining_attempts = 5
get_last_response_call ==
    /\ cpc = "idle"
    /\ cpc' = "loop"
    /\ message' = <<>>
    /\ remaining_attempts' = CopyAttempts
    /\ UNCHANGED <<waits, tries, cret>>
    /\ ClipFrame

\* the loop test passed: await asyncio.sleep(1)
get_last_response_sleep ==
    /\ cpc = "loop"
    /\ KeepTrying(message, remaining_attempts)
    /\ cpc' = "woke"
    /\ waits' = waits + 1
    /\ UNCHANGED <<message, remaining_attempts, tries, cret>>
    /\ ClipFrame

\* message = await get_answer_from_copy_button(page); remaining_attempts -= 1
get_last_response_attempt ==
    /\ cpc = "woke"
    /\ \E env \in CopyEnvs :
          /\ message' = get_answer_from_copy_button(env)
          /\ tries' = Append(tries, [met |-> Met(env),
                                     gave |-> get_answer_from_copy_button(env)])
    /\ remaining_attempts' = remaining_attempts - 1
    /\ cpc' = "loop"
    /\ UNCHANGED <<waits, cret>>
    /\ ClipFrame

\* the loop test failed: "" for no message, else clean_chat_answer(message)
get_last_response_return ==
    /\ cpc = "loop"
    /\ ~KeepTrying(message, remaining_attempts)
    /\ cret' = IF message = <<>> THEN <<>> ELSE clean_chat_answer(message)
    /\ cpc' = "done"
    /\ UNCHANGED <<message, remaining_attempts, waits, tries>>
    /\ ClipFrame

\* the caller has the text; the locals are gone
get_last_response_exit ==
    /\ cpc = "done"
    /\ cpc' = "idle"
    /\ message' = <<>>
    /\ remaining_attempts' = 0
    /\ waits' = 0
    /\ tries' = <<>>
    /\ cret' = <<>>
    /\ ClipFrame

(***************************************************************************)
(* duckduckgo_chat.py: clean_chat_answer as a function of any plain text,  *)
(* applied to a text and then to its own result.                           *)
(***************************************************************************)
\* the characters of a text: a letter, CR, LF
Chars == {"c", "\r", "\n"}

PlainTexts == SeqsUpTo(Chars, MaxText)

CleanFrame ==
    UNCHANGED <<proxyVars, mainVars, chatVars, convVars, clipVars, loadVars, obsVars>>

\* clean_chat_answer(text) for a text of the caller
clean_chat_answer_call ==
    /\ cleanings = <<>>
    /\ \E x \in PlainTexts :
          /\ pasted' = x
          /\ cleanings' = <<clean_chat_answer(x)>>
    /\ CleanFrame

\* clean_chat_answer applied to what it returned
clean_chat_answer_again ==
    /\ Len(cleanings) = 1
    /\ cleanings' = Append(cleanings, clean_chat_answer(cleanings[1]))
    /\ UNCHANGED pasted
    /\ CleanFrame

\* the caller has both texts
clean_chat_answer_exit ==
    /\ Len(cleanings) = 2
    /\ pasted' = <<>>
    /\ cleanings' = <<>>
    /\ CleanFrame

(***************************************************************************)
(* deepseek_chat.py: wait_for_chat_to_load, the loop a provider runs on a  *)
(* page it has just opened.  Each turn calls check_if_chat_loaded, which   *)
(* looks the chat input up with wait_for_element(timeout=5) and sleeps one *)
(* second when the check gave False.  The loops of the other providers are *)
(* the same code with another selector.                                    *)
(***************************************************************************)
\* seconds wait_for_element may spend in one lookup (timeout=5 in the code,
\* scaled down with the deadline)
ElementTimeout == 2

\* page.find_or_wait_element as wait_for_element runs it: the element, no
\* element within the timeout, or an exception; and the seconds it took
LoadEnvs == [lookup : {"found", "none", "raises"}, took : 0..ElementTimeout]

\* wait_for_element: the element, None for an exception
wait_for_element(env) == IF env.lookup = "found" THEN "element" ELSE "None"

\* check_if_chat_loaded: button is not None; its own except gives False
check_if_chat_loaded(env) == wait_for_element(env) # "None"

\* a loop that takes a failed lookup for the end of loading
AfterCheckGivingUp(env) ==
    IF env.lookup = "none" THEN "sleep" ELSE "done"

\* if await check_if_chat_loaded(page): return True; else the sleep
AfterCheck(env) == IF check_if_chat_loaded(env) THEN "done" ELSE "sleep"

LoadFrame ==
    UNCHANGED <<proxyVars, mainVars, chatVars, convVars, clipVars, cleanVars, obsVars>>

\* start_time = time.time()
wait_for_chat_to_load_call ==
    /\ lpc = "idle"
    /\ lpc' = "test"
    /\ loadElapsed' = 0
    /\ UNCHANGED <<checks, lret>>
    /\ LoadFrame

\* the while test passed: await check_if_chat_loaded(page)
wait_for_chat_to_load_check ==
    /\ lpc = "test"
    /\ WithinDeadline(loadElapsed)
    /\ \E env \in LoadEnvs :
          /\ checks' = Append(checks, env.lookup)
          /\ loadElapsed' = loadElapsed + env.took
          /\ lpc' = AfterCheck(env)
          /\ lret' = check_if_chat_loaded(env)
    /\ LoadFrame

\* await asyncio.sleep(1)
wait_for_chat_to_load_sleep ==
    /\ lpc = "sleep"
    /\ lpc' = "test"
    /\ loadElapsed' = loadElapsed + 1
    /\ UNCHANGED <<checks, lret>>
    /\ LoadFrame

\* the while test failed: return False
wait_for_chat_to_load_timeout ==
    /\ lpc = "test"
    /\ ~WithinDeadline(loadElapsed)
    /\ lpc' = "done"
    /\ lret' = FALSE
    /\ UNCHANGED <<loadElapsed, checks>>
    /\ LoadFrame

\* the caller has the result; the locals are gone
wait_for_chat_to_load_exit ==
    /\ lpc = "done"
    /\ lpc' = "idle"
    /\ loadElapsed' = 0
    /\ checks' = <<>>
    /\ lret' = FALSE
    /\ LoadFrame

(***************************************************************************)
(* main.py: startup, shutdown and POST /chat.  chat_endpoint is a          *)
(* coroutine; it gives the event loop back while it awaits create_driver() *)
(* and browser.get_page() inside initialize_browser and while it awaits    *)
(* the page inside the chat function, and runs without a break from the    *)
(* end of the chat function to its return.  Startup runs before the server *)
(* takes requests and shutdown after the last one, each alone.             *)
(***************************************************************************)
\* request.model values a client sends: two supported names, one of them
\* in capitals, and a name main.py does not know
ModelNames == {"GPT", "deepseek", "llama"}

\* str.lower() on these names
lower(name) == IF name = "GPT" THEN "gpt" ELSE name

\* a facade that also reports an empty answer as a failure
ChatResponseEmptyFails(response, model) ==
    IF startswith(response, <<"Error:">>) \/ response = <<>>
    THEN [status |-> 200, response |-> <<>>, model |-> model,
          success |-> FALSE, error |-> response]
    ELSE [status |-> 200, response |-> response, model |-> model,
          success |-> TRUE, error |-> "None"]

\* the ChatResponse built from the text the chat function returned
ChatResponseOf(response, model) ==
    IF startswith(response, <<"Error:">>)
    THEN [status |-> 200, response |-> <<>>, model |-> model,
          success |-> FALSE, error |-> response]
    ELSE [status |-> 200, response |-> response, model |-> model,
          success |-> TRUE, error |-> "None"]

\* @app.on_event("startup"): initialize_browser, whatever it returns
startup_event ==
    /\ proc = "starting"
    /\ \E outcome \in InitOutcomes :
        LET i == initialize_browser(browser, page, created, outcome)
        IN  /\ browser' = i.browser
            /\ page' = i.page
            /\ created' = i.created
    /\ proc' = "serving"
    /\ UNCHANGED <<closed, dropped, restarts, flights, loaded, proxyVars, chatVars, convVars, clipVars, loadVars, cleanVars, obsVars>>

\* @app.on_event("shutdown"): cleanup_browser, once the requests are answered
shutdown_event ==
    /\ proc = "serving"
    /\ \A i \in Slots : flights[i].pc = "idle"
    /\ \A r \in RestartSlots : restarts[r].pc = "idle"
    /\ \E outcome \in StopOutcomes :
        LET c == cleanup_browser(browser, page, closed, dropped, outcome)
        IN  /\ browser' = c.browser
            /\ page' = c.page
            /\ closed' = c.closed
            /\ dropped' = c.dropped
    /\ proc' = "stopped"
    /\ UNCHANGED <<created, restarts, flights, loaded, proxyVars, chatVars, convVars, clipVars, loadVars, cleanVars, obsVars>>

\* the flight after initialize_browser returned False
InitFailed(f) ==
    [f EXCEPT !.pc = "answered", !.held = NoHandle,
              !.response = [status |-> 500, cause |-> "initialize_browser"]]

\* the flight after initialize_browser returned True: the routing on
\* request.model.lower() and the call of the chat function with the global
\* page pg.  An unknown model raises HTTPException, which "except Exception"
\* turns into HTTPException(500).
Routed(f, pg) ==
    IF lower(f.model) \notin Providers
    THEN [f EXCEPT !.pc = "answered", !.held = NoHandle,
                   !.response = [status |-> 500, cause |-> "unsupported_model"]]
    ELSE [f EXCEPT !.pc = "send", !.held = NoHandle, !.page = pg]

\* chat_endpoint up to its first await.  With a browser, initialize_browser
\* returns True at once and the chat function is called; without one the
\* coroutine awaits create_driver().
chat_endpoint_call(n) ==
    /\ proc = "serving"
    /\ flights[n].pc = "idle"
    /\ \E model \in ModelNames :
        flights' = [flights EXCEPT ![n] =
            IF browser # NoHandle
            THEN Routed([IdleFlight EXCEPT !.model = model], page)
            ELSE [IdleFlight EXCEPT !.pc = "creating", !.model = model]]
    /\ UNCHANGED <<browser, page, created, closed, dropped, restarts, proc, loaded,
                   proxyVars, chatVars, convVars, clipVars, loadVars, cleanVars, obsVars>>

\* what create_driver() can do, and browser.get_page()
CreateOutcomes == {"ok", "create_raises"}

PageOutcomes == {"ok", "get_page_raises"}

\* create_driver() comes back: "browser = " the new browser, whatever the
\* global holds by now, then the coroutine awaits browser.get_page()
chat_endpoint_created(n) ==
    /\ flights[n].pc = "creating"
    /\ \E outcome \in CreateOutcomes :
        IF outcome = "ok"
        THEN /\ created < MaxSessions
             /\ browser' = created + 1
             /\ created' = created + 1
             /\ flights' = [flights EXCEPT ![n].pc = "paging",
                                           ![n].held = created + 1]
        ELSE /\ flights' = [flights EXCEPT ![n] = InitFailed(flights[n])]
             /\ UNCHANGED <<browser, created>>
    /\ UNCHANGED <<page, closed, dropped, restarts, proc, loaded,
                   proxyVars, chatVars, convVars, clipVars, loadVars, cleanVars, obsVars>>

\* browser.get_page() comes back: "page = " the page of that browser;
\* initialize_browser returns and the chat function is called
chat_endpoint_paged(n) ==
    /\ flights[n].pc = "paging"
    /\ \E outcome \in PageOutcomes :
        IF outcome = "ok"
        THEN /\ page' = flights[n].held
             /\ flights' = [flights EXCEPT ![n] = Routed(flights[n], flights[n].held)]
        ELSE /\ flights' = [flights EXCEPT ![n] = InitFailed(flights[n])]
             /\ UNCHANGED page
    /\ UNCHANGED <<browser, created, closed, dropped, restarts, proc, loaded,
                   proxyVars, chatVars, convVars, clipVars, loadVars, cleanVars, obsVars>>

\* the flight after its chat function returned text
Answered(f, text) ==
    [f EXCEPT !.pc = "answered", !.result = text,
              !.response = ChatResponseOf(text, f.model)]

\* send_message of the chat function returns; on a page that is None the
\* lookup of the input control raises
chat_endpoint_send(n) ==
    /\ flights[n].pc = "send"
    /\ \E ret \in { send_message(lower(flights[n].model), env).ret :
                      env \in { e \in SendEnvs :
                                flights[n].page = NoHandle => e.textarea = "raises" } } :
        flights' = [flights EXCEPT ![n] =
            IF AfterSend(ret) = "done"
            THEN Answered(flights[n], ErrorSendFailed)
            ELSE [flights[n] EXCEPT !.pc = "await"]]
    /\ UNCHANGED <<browser, page, created, closed, dropped, restarts, proc, loaded,
                   proxyVars, chatVars, convVars, clipVars, loadVars, cleanVars, obsVars>>

\* one answer lookup of wait_for_response returns
chat_endpoint_poll(n) ==
    /\ flights[n].pc = "await"
    /\ \E l \in {"answer", "none", "raises"} :
        flights' = [flights EXCEPT ![n] =
            IF AfterLookup(l) = "done"
            THEN Answered(flights[n], ErrorResponseTimeout)
            ELSE [flights[n] EXCEPT !.pc = AfterLookup(l)]]
    /\ UNCHANGED <<browser, page, created, closed, dropped, restarts, proc, loaded,
                   proxyVars, chatVars, convVars, clipVars, loadVars, cleanVars, obsVars>>

\* the asyncio.sleep(1) of wait_for_response returns: on to the loop test
chat_endpoint_sleep(n) ==
    /\ flights[n].pc = "sleep"
    /\ flights' = [flights EXCEPT ![n] = [flights[n] EXCEPT !.pc = "await", !.waited = TRUE]]
    /\ UNCHANGED <<browser, page, created, closed, dropped, restarts, proc, loaded,
                   proxyVars, chatVars, convVars, clipVars, loadVars, cleanVars, obsVars>>

\* a timeout after which the handler closes the browser
chat_endpoint_timeout_teardown(n) ==
    /\ flights[n].pc = "await"
    /\ flights[n].waited
    /\ flights' = [flights EXCEPT ![n] = Answered(flights[n], ErrorResponseTimeout)]
    /\ LET c == cleanup_browser(browser, page, closed, dropped, "ok")
       IN  /\ browser' = c.browser
           /\ page' = c.page
           /\ closed' = c.closed
           /\ dropped' = c.dropped
    /\ UNCHANGED <<created, restarts, proc, loaded,
                   proxyVars, chatVars, convVars, clipVars, loadVars, cleanVars, obsVars>>

\* the deadline of wait_for_response has passed (the seconds are not
\* counted here: the loop has slept at least once)
chat_endpoint_timeout(n) ==
    /\ flights[n].pc = "await"
    /\ flights[n].waited
    /\ flights' = [flights EXCEPT ![n] = Answered(flights[n], ErrorResponseTimeout)]
    /\ UNCHANGED <<browser, page, created, closed, dropped, restarts, proc, loaded,
                   proxyVars, chatVars, convVars, clipVars, loadVars, cleanVars, obsVars>>

\* get_last_response returns
chat_endpoint_extract(n) ==
    /\ flights[n].pc = "extract"
    /\ \E text \in { get_last_response(lower(flights[n].model), env) :
                        env \in ExtractEnvs } :
        flights' = [flights EXCEPT ![n] = Answered(flights[n], text)]
    /\ UNCHANGED <<browser, page, created, closed, dropped, restarts, proc, loaded,
                   proxyVars, chatVars, convVars, clipVars, loadVars, cleanVars, obsVars>>

\* the answer leaves the server
chat_endpoint_exit(n) ==
    /\ flights[n].pc = "answered"
    /\ flights' = [flights EXCEPT ![n] = IdleFlight]
    /\ UNCHANGED <<browser, page, created, closed, dropped, restarts, proc, loaded,
                   proxyVars, chatVars, convVars, clipVars, loadVars, cleanVars, obsVars>>

(***************************************************************************)
(* main.py: POST /restart as a coroutine, cut at its awaits: the stop of    *)
(* the browser inside cleanup_browser, the sleep, create_driver() and      *)
(* browser.get_page() inside initialize_browser.                           *)
(***************************************************************************)
RestartSucceeded == [status |-> 200, message |-> "Browser restarted successfully"]

\* HTTPException(500), raised again by "except Exception"
RestartFailed == [status |-> 500]

\* cleanup_browser up to its await: "if browser" passes the global to
\* close_browser; without a browser the coroutine goes on to the sleep
restart_browser_call(r) ==
    /\ proc = "serving"
    /\ restarts[r].pc = "idle"
    /\ restarts' = [restarts EXCEPT ![r] =
            [IdleRestart EXCEPT
                !.pc = IF browser # NoHandle THEN "closing" ELSE "sleeping",
                !.held = browser,
                !.before = [browser |-> browser, page |-> page]]]
    /\ UNCHANGED <<browser, page, created, closed, dropped, proc, flights, loaded,
                   proxyVars, chatVars, convVars, clipVars, loadVars, cleanVars, obsVars>>

\* close_browser comes back, the browser stopped or the exception of
\* browser.stop() logged: browser = None, page = None, whatever the globals
\* hold by now; then asyncio.sleep(2)
restart_browser_closed(r) ==
    /\ restarts[r].pc = "closing"
    /\ \E outcome \in StopOutcomes :
          LET c == close_browser(restarts[r].held, closed, dropped, outcome)
          IN  /\ closed' = c.closed
              /\ dropped' = c.dropped
    /\ browser' = NoHandle
    /\ page' = NoHandle
    /\ restarts' = [restarts EXCEPT ![r].pc = "sleeping", ![r].held = NoHandle]
    /\ UNCHANGED <<created, proc, flights, loaded,
                   proxyVars, chatVars, convVars, clipVars, loadVars, cleanVars, obsVars>>

\* the sleep is over: initialize_browser returns True at once with a
\* browser, and awaits create_driver() without one
restart_browser_wake(r) ==
    /\ restarts[r].pc = "sleeping"
    /\ restarts' = [restarts EXCEPT ![r] =
            IF browser # NoHandle
            THEN [@ EXCEPT !.pc = "answered", !.response = RestartSucceeded]
            ELSE [@ EXCEPT !.pc = "creating"]]
    /\ UNCHANGED <<browser, page, created, closed, dropped, proc, flights, loaded,
                   proxyVars, chatVars, convVars, clipVars, loadVars, cleanVars, obsVars>>

\* create_driver() comes back
restart_browser_created(r) ==
    /\ restarts[r].pc = "creating"
    /\ \E outcome \in CreateOutcomes :
        IF outcome = "ok"
        THEN /\ created < MaxSessions
             /\ browser' = created + 1
             /\ created' = created + 1
             /\ restarts' = [restarts EXCEPT ![r].pc = "paging",
                                             ![r].held = created + 1]
        ELSE /\ restarts' = [restarts EXCEPT ![r].pc = "answered",
                                             ![r].response = RestartFailed]
             /\ UNCHANGED <<browser, created>>
    /\ UNCHANGED <<page, closed, dropped, proc, flights, loaded,
                   proxyVars, chatVars, convVars, clipVars, loadVars, cleanVars, obsVars>>

\* browser.get_page() comes back
restart_browser_paged(r) ==
    /\ restarts[r].pc = "paging"
    /\ \E outcome \in PageOutcomes :
        IF outcome = "ok"
        THEN /\ page' = restarts[r].held
             /\ restarts' = [restarts EXCEPT ![r].pc = "answered",
                                             ![r].held = NoHandle,
                                             ![r].response = RestartSucceeded]
        ELSE /\ restarts' = [restarts EXCEPT ![r].pc = "answered",
                                             ![r].held = NoHandle,
                                             ![r].response = RestartFailed]
             /\ UNCHANGED page
    /\ UNCHANGED <<browser, created, closed, dropped, proc, flights, loaded,
                   proxyVars, chatVars, convVars, clipVars, loadVars, cleanVars, obsVars>>

\* the answer leaves the server
restart_browser_exit(r) ==
    /\ restarts[r].pc = "answered"
    /\ restarts' = [restarts EXCEPT ![r] = IdleRestart]
    /\ UNCHANGED <<browser, page, created, closed, dropped, proc, flights, loaded,
                   proxyVars, chatVars, convVars, clipVars, loadVars, cleanVars, obsVars>>

Next ==
    \/ init_proxy
    \/ chat_completions_call
    \/ chat_completions_return
    \/ chat_completions_raise
    \/ chat_completions_invalid
    \/ v1_chat_completions_call
    \/ v1_chat_completions_return
    \/ v1_chat_completions_raise
    \/ v1_chat_completions_invalid
    \/ ResponseSent

\* the proxy under arbitrary requests
Spec == Init /\ [][Next]_vars


NextConversation ==
    \/ init_proxy
    \/ ConversationTurn
    \/ ConversationReply
    \/ ConversationError
    \/ ResponseSent

NextRetry ==
    \/ init_proxy
    \/ ClientPost
    \/ ClientRetry
    \/ ClientAnswered
    \/ ConversationError
    \/ ResponseSent

\* the proxy under one client that posts a request again when it was
\* answered 500
SpecRetry == Init /\ [][NextRetry]_vars

\* the proxy under one client that holds a conversation
SpecConversation == Init /\ [][NextConversation]_vars

NextRestart ==
    \/ NextConversation
    \/ startup_event
    \/ \E r \in RestartSlots : restart_browser_call(r)
    \/ \E r \in RestartSlots : restart_browser_closed(r)
    \/ \E r \in RestartSlots : restart_browser_wake(r)
    \/ \E r \in RestartSlots : restart_browser_created(r)
    \/ \E r \in RestartSlots : restart_browser_paged(r)
    \/ \E r \in RestartSlots : restart_browser_exit(r)

\* the proxy under one client that holds a conversation, and main.py started
\* and taking POST /restart requests meanwhile
SpecRestart == Init /\ [][NextRestart]_vars

NextChat ==
    \/ chat_with_deepseek
    \/ chat_with_duckduckgo
    \/ chat_with_gpt
    \/ chat_with_qwen

NextMain ==
    \/ startup_event
    \/ shutdown_event
    \/ \E n \in Slots : chat_endpoint_call(n)
    \/ \E n \in Slots : chat_endpoint_created(n)
    \/ \E n \in Slots : chat_endpoint_paged(n)
    \/ \E n \in Slots : chat_endpoint_send(n)
    \/ \E n \in Slots : chat_endpoint_poll(n)
    \/ \E n \in Slots : chat_endpoint_sleep(n)
    \/ \E n \in Slots : chat_endpoint_timeout(n)
    \/ \E n \in Slots : chat_endpoint_extract(n)
    \/ \E n \in Slots : chat_endpoint_exit(n)

\* main.py's server under concurrent POST /chat requests
SpecMain == Init /\ [][NextMain]_vars

NextSession ==
    \/ NextMain
    \/ \E r \in RestartSlots : restart_browser_call(r)
    \/ \E r \in RestartSlots : restart_browser_closed(r)
    \/ \E r \in RestartSlots : restart_browser_wake(r)
    \/ \E r \in RestartSlots : restart_browser_created(r)
    \/ \E r \in RestartSlots : restart_browser_paged(r)
    \/ \E r \in RestartSlots : restart_browser_exit(r)

\* main.py's server under concurrent POST /chat and POST /restart requests
SpecSession == Init /\ [][NextSession]_vars

NextClipboard ==
    \/ get_last_response_call
    \/ get_last_response_sleep
    \/ get_last_response_attempt
    \/ get_last_response_return
    \/ get_last_response_exit

\* get_last_response of duckduckgo_chat.py, called again and again; every
\* sleep and every attempt it awaits comes back
SpecClipboard == Init /\ [][NextClipboard]_vars /\ WF_vars(NextClipboard)

NextClean ==
    \/ clean_chat_answer_call
    \/ clean_chat_answer_again
    \/ clean_chat_answer_exit

\* clean_chat_answer of duckduckgo_chat.py on every text of up to MaxText
\* characters
SpecClean == Init /\ [][NextClean]_vars

NextLoad ==
    \/ wait_for_chat_to_load_call
    \/ wait_for_chat_to_load_check
    \/ wait_for_chat_to_load_sleep
    \/ wait_for_chat_to_load_timeout
    \/ wait_for_chat_to_load_exit

\* wait_for_chat_to_load, called again and again; every lookup and every
\* sleep it awaits comes back
SpecLoad == Init /\ [][NextLoad]_vars /\ WF_vars(NextLoad)

\* the provider interactions, one at a time
SpecChat == Init /\ [][NextChat]_vars

\* the same, where the event loop resumes the coroutine whenever the page
\* operation or the sleep it awaits has completed
SpecChatFair == Init /\ [][NextChat]_vars /\ WF_vars(NextChat)

(***************************************************************************)
(* Properties of the reconciliation (proxy.py).                            *)
(***************************************************************************)
\* positions (from 1) of the messages whose stripped content is in values
Matches(messages, values) ==
    { i \in 1..Len(messages) : strip(messages[i].content) \in Range(values) }

Max(S) == CHOOSE x \in S : \A y \in S : y <= x

\* position of the last match, 0 if there is none
LastMatch(messages, values) ==
    IF Matches(messages, values) = {} THEN 0 ELSE Max(Matches(messages, values))

LastText(messages) == strip(messages[Len(messages)].content)

\* C1: when the interaction is invoked for a request whose stripped last
\* message is not in the ledger, the prompt is the rendering of exactly the
\* messages after the highest-index message whose stripped content is a
\* ledger entry (of all messages if there is none); every message of that
\* suffix is absent from the ledger.
C1_DeltaIsSuffixAfterLastMatch ==
    (ppc = "calling" /\ LastText(req) \notin Range(ledger0)) =>
        LET i == LastMatch(req, ledger0)
        IN  /\ prompt = RenderAll(SubSeq(req, i + 1, Len(req)))
            /\ \A j \in (i + 1)..Len(req) :
                  strip(req[j].content) \notin Range(ledger0)
            /\ i > 0 => strip(req[i].content) \in Range(ledger0)

\* two messages match the ledger and the last message does not
C1_Witness ==
    /\ ppc = "calling"
    /\ Len(req) = 3
    /\ Matches(req, ledger0) = {1, 2}
    /\ prompt = Render(req[3])

\* C2: when no message of the request matches a ledger entry (empty ledger
\* included), the prompt is the rendering of the entire request.
C2_NoMatchSendsEverything ==
    (ppc = "calling" /\ Matches(req, ledger0) = {}) => prompt = RenderAll(req)

\* a request of several messages, none in a non-empty ledger
C2_Witness ==
    /\ ppc = "calling"
    /\ ledger0 # <<>>
    /\ Len(req) >= 2
    /\ Matches(req, ledger0) = {}
    /\ prompt = RenderAll(req)

\* C3: in a conversation (each request = the previous messages, the reply
\* returned, one new user message) every request after the first submits
\* the new user message only: nothing submitted or received before.
C3_OnlyNewTurnsSubmitted ==
    (ppc = "calling" /\ Len(req) >= 2) => prompt = Render(req[Len(req)])

\* C4: when the stripped last message is a ledger entry, the interaction is
\* still invoked, with the rendering of the entire request: the prompt of
\* the no-match case.
C4_EmptyDeltaSendsEverything ==
    (ppc = "calling" /\ LastText(req) \in Range(ledger0)) =>
        /\ prompt = RenderAll(req)
        /\ prompt = SubmittedPrompt(req, <<>>)
        /\ prompt # <<>>

\* a request of several messages whose last one is in the ledger
C4_Witness ==
    /\ ppc = "calling"
    /\ Len(req) >= 2
    /\ LastText(req) \in Range(ledger0)
    /\ prompt = RenderAll(req)

\* C5: the scan reads the ledger as it was before the request; while the
\* interaction runs the ledger is that ledger plus the stripped last
\* message; after an answer with text it is that ledger plus the message
\* and the answer, in this order.
C5_LedgerUpdateOrder ==
    /\ ppc = "calling" =>
          /\ prompt = SubmittedPrompt(req, ledger0)
          /\ ledger = Append(ledger0, LastText(req))
    /\ (ppc = "done" /\ resp.status = 200 /\ resp.content # <<>>) =>
          ledger = ledger0 \o <<LastText(req), resp.content>>
    /\ (ppc = "done" /\ resp.status = 200 /\ resp.content = <<>>) =>
          ledger = Append(ledger0, LastText(req))

\* an answered request on a ledger that already had entries, where reading
\* the ledger after the append would have given another prompt
C5_Witness ==
    /\ ppc = "done"
    /\ resp.status = 200
    /\ resp.content # <<>>
    /\ ledger0 # <<>>
    /\ prompt # SubmittedPrompt(req, Append(ledger0, LastText(req)))
    /\ ledger = ledger0 \o <<LastText(req), resp.content>>

\* C6: the step by which a POST /restart gives the process its new browser
\* leaves the ledger empty.
C6_RestartClearsLedger ==
    [][(\E r \in RestartSlots : /\ restarts[r].pc = "creating"
                                /\ restarts'[r].pc = "paging"
                                /\ browser' # browser) =>
            ledger' = <<>>]_vars

\* C7: the ledger only grows at its end: every step leaves the old ledger
\* a prefix of the new one.
C7_LedgerAppendOnly == [][IsPrefix(ledger, ledger')]_vars

\* an internal error answered while the ledger holds earlier entries
C7_Witness ==
    /\ ppc = "done"
    /\ resp.status = 500
    /\ Len(ledger) >= 3

\* C8 as stated: once every accepted request has been answered with text,
\* the ledger holds one entry per distinct turn text and one per answer.
C8_LengthCountsDistinctTurns ==
    (ppc = "idle" /\ nAnswers = nAccepted) =>
        Len(ledger) = Cardinality(turns) + nAnswers

\* C8 amended: the ledger holds one entry per accepted request and one per
\* answer with text, at every moment; its length never decreases.
C8_LengthCountsRequestsAndAnswers ==
    /\ [](Len(ledger) = nAccepted + nAnswers)
    /\ [][Len(ledger') >= Len(ledger)]_vars

\* the same turn text submitted twice, both times answered
C8_Witness ==
    /\ ppc = "idle"
    /\ nAccepted = 2
    /\ nAnswers = 2
    /\ Cardinality(turns) = 1
    /\ Len(ledger) = 4

\* C9: one message {r, c} on an empty ledger, answered with a non-empty
\* text: the prompt was "[r] c", the ledger is [strip(c), answer], the
\* completion carries the answer as assistant with finish_reason stop.
C9_SingleTurnEndToEnd ==
    (/\ ppc = "done"
     /\ resp.status = 200
     /\ resp.content # <<>>
     /\ ledger0 = <<>>
     /\ Len(req) = 1) =>
        /\ prompt = <<"[", req[1].role, "]", " ">> \o req[1].content
        /\ ledger = <<strip(req[1].content), resp.content>>
        /\ resp.content \in Answers
        /\ resp.role = "assistant"
        /\ resp.finish_reason = "stop"

\* {user, " a\n"} answered "c" on an empty ledger
C9_Witness ==
    /\ ppc = "done"
    /\ resp.status = 200
    /\ ledger0 = <<>>
    /\ req = << [role |-> "user", content |-> <<" ", "a", "\n">>] >>
    /\ prompt = <<"[", "user", "]", " ", " ", "a", "\n">>
    /\ ledger = << <<"a">>, <<"c">> >>
    /\ resp.content = <<"c">>

(***************************************************************************)
(* Properties of the completions endpoints (proxy.py).                     *)
(***************************************************************************)
\* C16: a completion of a request with stream true, or under a server
\* default of stream true, is written as an event stream of two frames: the
\* data with the whole answer under choices[0].delta and no choices[0].message,
\* then [DONE]; otherwise as one JSON body with the answer under
\* choices[0].message.  Nothing is written while the interaction runs.
C16_StreamingShape ==
    /\ ppc = "calling" => wire = NothingSent
    /\ (ppc = "done" /\ resp.status = 200) =>
          IF stream \/ cfgStream
          THEN /\ wire.media = "text/event-stream"
               /\ Len(wire.frames) = 2
               /\ "json" \in DOMAIN wire.frames[1].data
               /\ "message" \notin DOMAIN wire.frames[1].data.json.choices[1]
               /\ "delta" \in DOMAIN wire.frames[1].data.json.choices[1]
               /\ wire.frames[1].data.json.choices[1].delta =
                     [role |-> "assistant", content |-> resp.content]
               /\ wire.frames[2].data = [text |-> "[DONE]"]
          ELSE /\ wire.media = "application/json"
               /\ "message" \in DOMAIN wire.body.choices[1]
               /\ wire.body.choices[1].message =
                     [role |-> "assistant", content |-> resp.content]

\* a request without stream answered as a stream by the server default
C16_Witness ==
    /\ ppc = "done"
    /\ resp.status = 200
    /\ ~stream
    /\ cfgStream
    /\ resp.content = <<"c">>
    /\ wire.media = "text/event-stream"
    /\ Len(wire.frames) = 2

\* C17: a request with an empty messages list is answered 400 with type
\* invalid_request_error and param messages, straight from idle: the ledger,
\* the prompt and the count of accepted requests are untouched and the
\* interaction is never entered with an empty request.
C17_EmptyRequestRejected ==
    /\ [](ppc = "calling" => req # <<>>)
    /\ []((ppc = "done" /\ req = <<>>) =>
            /\ resp.status = 400
            /\ resp.type = "invalid_request_error"
            /\ resp.param = "messages")
    /\ [][(ppc = "idle" /\ ppc' = "done") =>
            /\ req' = <<>>
            /\ ledger' = ledger
            /\ prompt' = <<>>
            /\ nAccepted' = nAccepted
            /\ UNCHANGED chatVars]_vars

\* an empty request rejected while the ledger holds entries
C17_Witness ==
    /\ ppc = "done"
    /\ req = <<>>
    /\ resp.status = 400
    /\ Len(ledger) >= 2

\* C18: a request during which the interaction callable raised, or a later
\* step of the try block raised, is answered 500 with type server_error; a
\* 200 completion is given only when nothing raised.
C18_InternalFailureIs500 ==
    /\ (ppc = "done" /\ fault # "none") =>
          /\ resp.status = 500
          /\ resp.type = "server_error"
    /\ (ppc = "done" /\ resp.status = 200) => fault = "none"

\* the callable returned None and response_content[-100:] raised
C18_Witness ==
    /\ ppc = "done"
    /\ fault = "result_is_none"
    /\ resp.status = 500
    /\ Len(req) >= 1

\* C22: POST /v1/chat/completions is the operation of POST /chat/completions:
\* whichever endpoint takes a request, the prompt is the one computed from
\* the request and the one ledger, the ledger gets the same appends and the
\* answer has the same shape.  The ledger is shared: a request posted to one
\* endpoint is scanned against the entries a request posted to the other
\* endpoint appended.
C22_V1Mirror ==
    /\ ppc = "calling" =>
          /\ ep \in Endpoints
          /\ prompt = SubmittedPrompt(req, ledger0)
          /\ ledger = AppendLastMessage(ledger0, req)
    /\ (ppc = "done" /\ resp.status = 200) =>
          /\ ledger = AppendAnswer(AppendLastMessage(ledger0, req), resp.content)
          /\ resp = Completion(resp.content)
          /\ wire = Respond(Data(resp.content), stream, cfgStream)
    /\ (ppc = "calling" /\ Len(via) = 2 /\ via[1] # via[2]) =>
          /\ ep = via[2]
          /\ {strip(conv[1].content), conv[2].content} \subseteq Range(ledger0)
          /\ 1 \in Matches(req, ledger0)
          /\ conv[2].content = strip(conv[2].content) => 2 \in Matches(req, ledger0)

\* the second request of a conversation posted to /v1 after the first was
\* posted to /chat/completions: only the new message is submitted
C22_Witness ==
    /\ ppc = "calling"
    /\ via = <<"/chat/completions", "/v1/chat/completions">>
    /\ ep = "/v1/chat/completions"
    /\ ledger0 = << <<"a">>, <<"c">> >>
    /\ Len(req) = 3
    /\ req[3].content = <<"b">>
    /\ prompt = Render(req[3])

\* C29: the answer is appended to the ledger only after an interaction
\* that succeeded: a request whose interaction returned a failure text
\* ("Error: ...") or "" leaves the ledger with its stripped last message as
\* the last entry.
C29_FailureNotInLedger ==
    (ppc = "done" /\ resp.status = 200
        /\ (resp.content = <<>> \/ startswith(resp.content, <<"Error:">>))) =>
            ledger = AppendLastMessage(ledger0, req)

\* C30: an interaction that returned a failure text is answered with an
\* HTTP error status, never as the content of a 200 completion.
C30_FailureIsHttpError ==
    (ppc = "done" /\ resp.status = 200) =>
        ~startswith(resp.content, <<"Error:">>)

(***************************************************************************)
(* Properties of the interaction (chapito/*_chat.py).                      *)
(***************************************************************************)
\* C10: for every provider, an interaction whose send_message returned
\* False ends with the text "Error: Failed to send message" without one
\* answer lookup and without get_last_response; the lookups and the
\* extraction run only after send_message returned True.
C10_SendFailureEndsInteraction ==
    /\ (ipc = "done" /\ ~sent.ret) =>
          /\ result = ErrorSendFailed
          /\ nPolls = 0
          /\ nExtracts = 0
    /\ ipc \in {"await", "sleep", "extract"} => sent.ret
    /\ (nPolls > 0 \/ nExtracts > 0) => sent.ret

\* the openai interaction ended by a send that found no submit control
C10_Witness ==
    /\ ipc = "done"
    /\ prov = "gpt"
    /\ ~sent.ret
    /\ sent.inserted
    /\ result = ErrorSendFailed
    /\ nPolls = 0

\* C11: after a send that returned True the answer lookup runs once per
\* interval: only at the loop test, one lookup at a time, each empty lookup
\* followed by a sleep of one second before the next, so never more than one
\* lookup per second elapsed and never more than 1 + LookupTime seconds per
\* lookup.  The first lookup that finds an answer is followed by exactly one
\* get_last_response, whose text is the result (the empty text when it found
\* no container to read).  When the deadline passes with every lookup empty
\* the result is "Error: Response timeout" and get_last_response is never
\* called.  A finished interaction is returned, never sent or polled again.
C11_AwaitingOutcome ==
    /\ [](/\ ipc = "extract" => (sent.ret /\ lookup = "answer" /\ nExtracts = 0)
          /\ ipc = "sleep" => (sent.ret /\ lookup = "none" /\ nPolls > 0)
          /\ ipc = "await" => nPolls <= elapsed
          /\ ipc \in {"sleep", "extract"} => nPolls <= elapsed + 1
          /\ lookup = "answer" => nPolls <= elapsed + 1
          /\ elapsed <= nPolls * (1 + LookupTime)
          /\ (ipc = "done" /\ lookup = "answer") =>
                /\ nExtracts = 1
                /\ result \in ExtractedBy(prov)
                /\ readFrom = 0 => result = <<>>
          /\ (ipc = "done" /\ sent.ret /\ lookup = "none") =>
                /\ result = ErrorResponseTimeout
                /\ nExtracts = 0
                /\ nPolls <= elapsed
                /\ elapsed >= ResponseDeadline
          /\ nExtracts > 0 => lookup = "answer")
    /\ [][/\ ipc = "await" => ipc' \in {"await", "sleep", "extract", "done"}
          /\ ipc = "sleep" =>
                (ipc' = "sleep" \/ (ipc' = "await" /\ elapsed' = elapsed + 1))
          /\ nPolls' > nPolls =>
                /\ ipc = "await"
                /\ nPolls' = nPolls + 1
                /\ elapsed < ResponseDeadline
          /\ nExtracts' > nExtracts => (ipc = "extract" /\ nExtracts' = 1)
          /\ ipc = "extract" => ipc' \in {"extract", "done"}
          /\ ipc = "done" => ipc' \in {"done", "idle"}]_vars

\* an answer found at the second lookup, after an empty lookup and its
\* sleep, and extracted
C11_Witness ==
    /\ ipc = "done"
    /\ sent.ret
    /\ lookup = "answer"
    /\ nPolls = 2
    /\ elapsed >= 1
    /\ nExtracts = 1
    /\ readFrom > 0
    /\ result = <<"c">>

\* C12: an interaction whose answer lookups all come back empty ends, after
\* at most ResponseDeadline + 1 lookups, with "Error: Response timeout"; no
\* interaction waits forever.
C12_TimeoutTermination ==
    /\ [](nPolls <= ResponseDeadline + 1)
    /\ [](ipc \in {"await", "sleep"} => lookup = "none")
    /\ (ipc \in {"await", "sleep"}) ~>
          (lookup # "none" \/ (ipc = "done" /\ result = ErrorResponseTimeout))

\* the deadline reached after ResponseDeadline empty lookups
C12_Witness ==
    /\ ipc = "done"
    /\ sent.ret
    /\ lookup = "none"
    /\ nPolls = ResponseDeadline
    /\ result = ErrorResponseTimeout

\* C14: an interaction that ended after a failed send, a timeout or an
\* exception caught in send_message, wait_for_response or get_last_response
\* returns a text that starts with "Error:"; any other returns the
\* extracted text.
C14_FailuresGiveErrorText ==
    ipc = "done" =>
        IF ~sent.ret \/ lookup # "answer" \/ caught # "none"
        THEN startswith(result, <<"Error:">>)
        ELSE result \in ExtractedBy(prov)

\* C20: for every provider, a send that found two or more submit controls
\* clicked the last of them.
C20_LastSubmitActivated ==
    (sent.ret /\ submits >= 2) => sent.clicked = submits

\* C21: send_message returns False whenever the input control is missing,
\* the submit control is missing, the insertion fails or the click on the
\* submit control fails, and never raises; it returns True only when the
\* text was inserted and the submit control was activated.
C21_SendResult ==
    ipc \in {"await", "sleep", "extract", "done"} =>
        /\ sent.ret = (sent.inserted /\ sent.activated)
        /\ caught = "send_message" => ~sent.ret

\* the attempts so far that gave no text
EmptyTries == { i \in DOMAIN tries : tries[i].gave = <<>> }

\* C23: get_last_response of duckduckgo makes at most CopyAttempts
\* attempts, each after one more sleep of a second and only while every
\* earlier attempt gave no text; it returns the text of the first attempt
\* that gave one, cleaned (clean_chat_answer of it, no whitespace at its
\* ends), or "" when all CopyAttempts attempts gave none; every call returns.
C23_BoundedClipboardRetry ==
    /\ [](Len(tries) <= CopyAttempts)
    /\ [][Len(tries') = Len(tries) + 1 =>
            /\ waits = Len(tries) + 1
            /\ EmptyTries = DOMAIN tries]_vars
    /\ [](cpc = "done" =>
            IF EmptyTries = DOMAIN tries
            THEN /\ Len(tries) = CopyAttempts
                 /\ cret = <<>>
            ELSE /\ EmptyTries = 1..(Len(tries) - 1)
                 /\ cret = clean_chat_answer(tries[Len(tries)].gave)
                 /\ cret = strip(cret))
    /\ (cpc = "loop") ~> (cpc = "done")

\* two attempts without text, then a clipboard with CR LF in it
C23_Witness ==
    /\ cpc = "done"
    /\ Len(tries) = 3
    /\ waits = 3
    /\ tries[1].met = "none"
    /\ tries[2].met = "no_button"
    /\ tries[3].gave = <<"c", "\r", "\n", "c">>
    /\ cret = <<"c", "\n", "c">>

\* C27: on a page that keeps the containers of earlier turns, the answer
\* lookup of an interaction is satisfied only by a container that appeared
\* after its send_message, and the text returned is read from such a
\* container.
C27_FreshAnswer ==
    /\ lookup = "answer" => containers > containersAtSend
    /\ (ipc = "done" /\ readFrom > 0) => readFrom > containersAtSend

\* C28: an answer lookup that finds nothing or raises does not end the
\* interaction: the polling goes on, and an interaction whose send
\* succeeded fails only once the deadline has passed.
C28_LookupFailureIsNotYet ==
    /\ lookup = "raises" => ipc \in {"await", "sleep"}
    /\ (ipc = "done" /\ sent.ret /\ nExtracts = 0) =>
          /\ result = ErrorResponseTimeout
          /\ elapsed >= ResponseDeadline

(***************************************************************************)
(* Properties of main.py.                                                  *)
(***************************************************************************)
\* the POST /chat requests whose chat function is running
InFlight == { n \in Slots : flights[n].pc \in {"send", "await", "sleep", "extract"} }

\* C13: a chat function runs (send_message is invoked) only on a page on
\* which wait_for_chat_to_load has returned True.
C13_SendOnlyAfterLoading ==
    \A n \in InFlight : flights[n].page \in loaded

\* C15: at most one chat function is running on the shared page at any
\* time.
C15_SingleFlight == Cardinality(InFlight) <= 1

\* C19: POST /chat answers success false, the text as error and an empty
\* response exactly when the text the chat function returned starts with
\* "Error:"; otherwise success true, the text as response and no error.  The
\* model of the answer is the model of the request as it was sent.
C19_FacadeResult ==
    \A n \in Slots :
        (flights[n].pc = "answered" /\ flights[n].response.status = 200) =>
            /\ flights[n].response.model = flights[n].model
            /\ flights[n].response.success =
                  ~(IF flights[n].result = <<>> THEN FALSE
                    ELSE flights[n].result[1] = "Error:")
            /\ IF flights[n].response.success
               THEN /\ flights[n].response.response = flights[n].result
                    /\ flights[n].response.error = "None"
               ELSE /\ flights[n].response.response = <<>>
                    /\ flights[n].response.error = flights[n].result

\* a timeout reported for a request whose model was sent in capitals, and
\* an empty answer reported as a success
C19_Witness ==
    /\ flights[1].pc = "answered"
    /\ flights[1].model = "GPT"
    /\ flights[1].result = ErrorResponseTimeout
    /\ flights[1].response.success = FALSE
    /\ flights[1].response.model = "GPT"
    /\ flights[2].pc = "answered"
    /\ flights[2].result = <<>>
    /\ flights[2].response.status = 200
    /\ flights[2].response.success = TRUE

\* C24: when POST /restart answers success the process holds a browser and
\* a page, neither of them a handle it held when the restart began, and the
\* browser it held then has been handed to close_browser.
C24_RestartRecreatesSession ==
    \A r \in RestartSlots :
        (restarts[r].pc = "answered" /\ restarts[r].response = RestartSucceeded) =>
            /\ browser # NoHandle
            /\ page # NoHandle
            /\ browser # restarts[r].before.browser
            /\ page # restarts[r].before.page
            /\ restarts[r].before.browser # NoHandle =>
                  restarts[r].before.browser \in closed \cup dropped

\* the browsers started that close_browser has not been called on
OpenBrowsers == (1..created) \ (closed \cup dropped)

\* C25: at most one browser is open at any time, and every browser ever
\* created is the one the global holds or has been handed to close_browser,
\* whatever the interleaving of startup, POST /chat, POST /restart and
\* shutdown.  A browser whose stop() raised counts as handed over.
C25_OneBrowserSession ==
    /\ Cardinality(OpenBrowsers) <= 1
    /\ \A b \in 1..created : b = browser \/ b \in closed \cup dropped

\* C26: a step of a chat function, the step that ends it in a timeout or
\* a failed send included, leaves the browser and page globals and the
\* closed browsers as they are; a browser is closed, and the globals set to
\* None, only by a step of POST /restart or by shutdown.
C26_NoTeardownOnFailure ==
    [][/\ (\E n \in Slots : /\ flights[n].pc \in {"send", "await", "sleep", "extract"}
                           /\ flights'[n] # flights[n]) =>
             UNCHANGED <<browser, page, created, closed, dropped>>
       /\ (closed' # closed \/ dropped' # dropped
             \/ (browser # NoHandle /\ browser' = NoHandle)) =>
             \/ \E r \in RestartSlots : /\ restarts[r].pc = "closing"
                                        /\ restarts'[r].pc = "sleeping"
             \/ proc = "serving" /\ proc' = "stopped"]_vars

\* one request timed out, another failed to send, and the browser of both
\* is still the open one
C26_Witness ==
    /\ flights[1].pc = "answered"
    /\ flights[1].result = ErrorResponseTimeout
    /\ flights[2].pc = "answered"
    /\ flights[2].result = ErrorSendFailed
    /\ browser # NoHandle
    /\ browser \notin closed
    /\ page = browser
    /\ flights[1].page = page
    /\ flights[2].page = page

\* C31: a POST /chat whose chat function found no answer container, or
\* only an empty text, after the answer lookup had succeeded is not answered
\* with success true: the extraction failure is told apart from an answer.
C31_ExtractFailureIsFailure ==
    \A n \in Slots :
        (flights[n].pc = "answered" /\ flights[n].response.status = 200
            /\ flights[n].result = <<>>) =>
                flights[n].response.success = FALSE

\* C34: every entry of the ledger is trimmed: the last message of a request
\* and the answer of the interaction are both stored without leading or
\* trailing whitespace.
C34_LedgerEntriesTrimmed ==
    \A i \in 1..Len(ledger) : ledger[i] = strip(ledger[i])

\* C35: a POST /chat whose model is none of the supported names, on a session
\* that initialize_browser reported ready, is answered with HTTP 400, and no
\* chat function was called for it.
C35_UnsupportedModelIs400 ==
    \A n \in Slots :
        (flights[n].pc = "answered" /\ lower(flights[n].model) \notin Providers
            /\ flights[n].response # InitFailed(flights[n]).response) =>
                /\ flights[n].response.status = 400
                /\ flights[n].page = NoHandle
                /\ flights[n].result = <<>>

\* C36: the browser and the page go together: outside a running
\* initialize_browser a set browser has a set page, and no POST /chat is
\* inside its chat function with a page that is missing.
C36_BrowserPageConsistency ==
    /\ (browser # NoHandle /\ \A n \in Slots : flights[n].pc # "paging") =>
            page # NoHandle
    /\ \A n \in Slots :
            flights[n].pc \in {"send", "await", "sleep", "extract"} =>
                flights[n].page # NoHandle

\* C37: a POST /chat whose chat function sent the prompt, saw the answer
\* and extracted a text from it is answered with success true and that
\* text, whatever the text is; success false is kept for a failed send, a
\* timeout and an exception.
C37_SuccessNotMisreported ==
    [][\A n \in Slots :
         (flights[n].pc = "extract" /\ flights'[n].pc = "answered"
             /\ flights'[n].result # <<>>) =>
                 /\ flights'[n].response.success
                 /\ flights'[n].response.response = flights'[n].result]_vars

\* C38: a request answered 500 because the interaction raised leaves the
\* ledger with its stripped last message appended and no answer after it;
\* the same request posted again finds its last message in the ledger and
\* submits the entire history.
C38_NoRollbackOnFailure ==
    /\ [](ppc = "done" /\ fault = "callable_raised" =>
            /\ resp.status = 500
            /\ ledger = Append(ledger0, LastText(req)))
    /\ [][(lastFault = "callable_raised" /\ ppc = "idle" /\ ppc' = "calling") =>
            /\ req' = conv
            /\ ledger[Len(ledger)] = LastText(req')
            /\ find_index_from_end(req', ledger) = Len(req') - 1
            /\ prompt' = RenderAll(req')]_vars

\* the retry of a request of two messages is being served: both messages
\* were submitted again, and the ledger holds the last one twice
C38_Witness ==
    /\ ppc = "calling"
    /\ lastFault = "callable_raised"
    /\ Len(req) = 2
    /\ req[1].content # req[2].content
    /\ prompt = RenderAll(req)
    /\ ledger = <<LastText(req), LastText(req)>>

(***************************************************************************)
(* Properties of the load loop.                                            *)
(***************************************************************************)
\* C32: wait_for_chat_to_load raises nothing: it returns True at the first
\* check that found the chat input and False only once the deadline has passed
\* with every check False; a lookup that failed counts as False and is
\* followed by the sleep and the next turn of the loop; and every call
\* returns.
C32_LoadLoop ==
    /\ [](lpc \in {"idle", "test", "sleep", "done"})
    /\ [](lpc = "done" =>
            IF lret
            THEN /\ checks # <<>>
                 /\ checks[Len(checks)] = "found"
                 /\ \A i \in 1..(Len(checks) - 1) : checks[i] # "found"
            ELSE /\ \A i \in 1..Len(checks) : checks[i] # "found"
                 /\ loadElapsed >= ResponseDeadline)
    /\ [](lpc = "sleep" =>
            /\ checks # <<>>
            /\ checks[Len(checks)] \in {"none", "raises"})
    /\ [][lpc = "sleep" => lpc' = "test"]_vars
    /\ (lpc = "test") ~> (lpc = "done")

\* the input was there at the third check, after a lookup that raised and
\* one that found nothing
C32_Witness ==
    /\ lpc = "done"
    /\ lret
    /\ checks = <<"raises", "none", "found">>

(***************************************************************************)
(* Properties of clean_chat_answer (duckduckgo_chat.py).                   *)
(***************************************************************************)
\* C39: clean_chat_answer of duckduckgo_chat.py is idempotent: applied to
\* its own result it returns that result.
C39_CleaningIdempotent ==
    Len(cleanings) = 2 => cleanings[2] = cleanings[1]

============================================================================
